---- MODULE Spec2Model ----
(***************************************************************************)
(* Model of src/aa.py: the section-generation and document-assembly        *)
(* pipeline (generate_project_sections followed by                          *)
(* create_word_document_safe) and the pure text functions it uses.          *)
(*                                                                          *)
(* Python strings are sequences of one-character strings.  The external     *)
(* collaborators (text generation, image search, image download, the        *)
(* document library) are nondeterministic: each call either succeeds or     *)
(* fails, the number of failures per run being bounded.                     *)
(***************************************************************************)
EXTENDS Naturals, Integers, Sequences, FiniteSets, TLC

\* Python's None where a string is expected: no string equals it (strings
\* are sequences of one-character strings)
None == <<"None">>

\* Python's None where a list of strings is expected
NoList == <<None>>

(***************************************************************************)
(* Bounds of the model.                                                     *)
(***************************************************************************)
\* number of lines of the longest custom outline
MaxOutline == 10
\* failing text-generation calls per run
MaxGroqFailures == 3
\* successful image downloads per run
MaxDownloadsOk == 3
\* failing document-library calls inside a guarded stage, per run
MaxStageFailures == 1
\* pieces of an input text of format_content_with_lists
MaxTokens == 4

(***************************************************************************)
(* Python string primitives.                                                *)
(***************************************************************************)
Digits == {"0", "1", "2", "3", "4", "5", "6", "7", "8", "9"}

Whitespace == {" ", "\t", "\n", "\r"}

UpperCase ==
  <<"A", "B", "C", "D", "E", "F", "G", "H", "I", "J", "K", "L", "M",
    "N", "O", "P", "Q", "R", "S", "T", "U", "V", "W", "X", "Y", "Z">>

LowerCase ==
  <<"a", "b", "c", "d", "e", "f", "g", "h", "i", "j", "k", "l", "m",
    "n", "o", "p", "q", "r", "s", "t", "u", "v", "w", "x", "y", "z">>

LowerChar(c) ==
  IF \E k \in 1..Len(UpperCase) : UpperCase[k] = c
  THEN LowerCase[CHOOSE k \in 1..Len(UpperCase) : UpperCase[k] = c]
  ELSE c

\* Op applied to the value of v, which is computed once: a local variable
\* of the source holding v
Value(v, Op(_)) == CHOOSE result \in {Op(x) : x \in {v}} : TRUE

\* str.lower()
lower(s) == [k \in 1..Len(s) |-> LowerChar(s[k])]

RECURSIVE lstrip(_, _)
\* str.lstrip(chars)
lstrip(s, chars) ==
  IF s # <<>> /\ Head(s) \in chars THEN lstrip(Tail(s), chars) ELSE s

RECURSIVE rstrip(_, _)
\* str.rstrip(chars)
rstrip(s, chars) ==
  IF s # <<>> /\ s[Len(s)] \in chars
  THEN rstrip(SubSeq(s, 1, Len(s) - 1), chars)
  ELSE s

\* str.strip()
strip(s) == rstrip(lstrip(s, Whitespace), Whitespace)

\* str.startswith(prefix)
startswith(s, prefix) ==
  Len(s) >= Len(prefix) /\ SubSeq(s, 1, Len(prefix)) = prefix

\* prefix in s
contains(s, sub) ==
  \E k \in 1..(Len(s) + 1) :
    k + Len(sub) - 1 <= Len(s) /\ SubSeq(s, k, k + Len(sub) - 1) = sub

\* the position of the first occurrence of sep in s at or after position
\* from, 0 when there is none
FirstAt(s, sep, from) ==
  LET occurs(k) == SubSeq(s, k, k + Len(sep) - 1) = sep
      last == Len(s) - Len(sep) + 1
  IN  IF \E k \in from..last : occurs(k)
      THEN CHOOSE k \in from..last :
             occurs(k) /\ \A j \in from..(k - 1) : ~occurs(j)
      ELSE 0

RECURSIVE SplitFrom(_, _, _, _)
\* the pieces of s from position from on, after the pieces acc: one step per
\* occurrence of sep, taken from left to right without overlap
SplitFrom(s, sep, from, acc) ==
  LET k == FirstAt(s, sep, from)
  IN  IF k = 0 THEN Append(acc, SubSeq(s, from, Len(s)))
      ELSE SplitFrom(s, sep, k + Len(sep), Append(acc, SubSeq(s, from, k - 1)))

\* str.split(sep) for a non-empty separator
split(s, sep) == SplitFrom(s, sep, 1, <<>>)

RECURSIVE WordsFrom(_, _, _)
WordsFrom(s, cur, acc) ==
  IF s = <<>> THEN (IF cur = <<>> THEN acc ELSE Append(acc, cur))
  ELSE IF Head(s) \in Whitespace
       THEN WordsFrom(Tail(s), <<>>, IF cur = <<>> THEN acc ELSE Append(acc, cur))
       ELSE WordsFrom(Tail(s), Append(cur, Head(s)), acc)

\* str.split() with no argument: the whitespace-separated words
split_words(s) == WordsFrom(s, <<>>, <<>>)

RECURSIVE join(_, _)
\* sep.join(lines)
join(lines, sep) ==
  IF lines = <<>> THEN <<>>
  ELSE IF Len(lines) = 1 THEN lines[1]
  ELSE lines[1] \o sep \o join(Tail(lines), sep)

\* re.match(r'^\d+\.', line)
MatchNumberMarker(line) ==
  LET rest == lstrip(line, Digits)
  IN  Len(rest) < Len(line) /\ rest # <<>> /\ Head(rest) = "."

\* re.sub(r'^\d+\.?\s*', '', line)
StripOutlineNumber(line) ==
  LET rest == lstrip(line, Digits)
  IN  IF Len(rest) = Len(line) THEN line
      ELSE IF rest # <<>> /\ Head(rest) = "."
           THEN lstrip(Tail(rest), Whitespace)
           ELSE lstrip(rest, Whitespace)

RECURSIVE DecimalDigits(_)
\* str(n) for n >= 0
DecimalDigits(n) ==
  LET d == <<"0", "1", "2", "3", "4", "5", "6", "7", "8", "9">>[(n % 10) + 1]
  IN  IF n < 10 THEN <<d>> ELSE Append(DecimalDigits(n \div 10), d)


(***************************************************************************)
(* format_content_with_lists (src/aa.py 366-382).                           *)
(***************************************************************************)
\* the bullet character U+2022, written "@" in this ASCII module; no other
\* text of the model contains "@"
Bullet == "@"

BulletMarkers == {Bullet, "-", "*"}

\* the keywords of line 376
ListKeywords ==
  { <<"s", "t", "e", "p", " ">>,
    <<"o", "b", "j", "e", "c", "t", "i", "v", "e", " ">>,
    <<"m", "e", "t", "h", "o", "d", " ">>,
    <<"a", "p", "p", "r", "o", "a", "c", "h", " ">> }

\* len(line) < 100, line 377
LineLimit == 100

\* lines 374-377 with the length test applied to every trigger:
\* (A or B or C) and D
IsShortListLine(line) ==
  /\ \/ (lower(line) # <<>> /\ Head(lower(line)) \in BulletMarkers)
     \/ MatchNumberMarker(line)
     \/ \E keyword \in ListKeywords : contains(lower(line), keyword)
  /\ Len(line) < LineLimit

\* the condition of lines 374-377: A or B or (C and D)
IsListLine(line) ==
  \/ (lower(line) # <<>> /\ Head(lower(line)) \in BulletMarkers)
  \/ MatchNumberMarker(line)
  \/ ( /\ \E keyword \in ListKeywords : contains(lower(line), keyword)
       /\ Len(line) < LineLimit )

\* line 378 without the removal of the old marker
BulletLineKeepingMarker(line) == <<Bullet, " ">> \o strip(line)

\* line 378: Bullet, a space, then line.lstrip(markers).lstrip('0123456789.').strip()
BulletLine(line) ==
  <<Bullet, " ">> \o strip(lstrip(lstrip(line, BulletMarkers), Digits \cup {"."}))

FormatLine(line) == IF IsListLine(line) THEN BulletLine(line) ELSE line

NonEmpty(line) == line # <<>>

StrippedLines(text) ==
  Value(split(text, <<"\n">>), LAMBDA lines :
    SelectSeq([k \in 1..Len(lines) |-> strip(lines[k])], NonEmpty))

format_content_with_lists(content) ==
  Value(StrippedLines(content), LAMBDA kept :
    join([k \in 1..Len(kept) |-> FormatLine(kept[k])], <<"\n">>))

\* parse_toc_items without the test of line 395: blank lines become entries
parse_toc_items_keeping_blank(toc) ==
  IF toc = <<>> \/ strip(toc) = <<>> THEN NoList
  ELSE LET lines == split(toc, <<"\n">>)
       IN  [k \in 1..Len(lines) |-> StripOutlineNumber(strip(lines[k]))]

(***************************************************************************)
(* parse_toc_items (src/aa.py 385-399).                                     *)
(***************************************************************************)
parse_toc_items(toc) ==
  IF toc = <<>> \/ strip(toc) = <<>> THEN NoList
  ELSE LET kept == StrippedLines(toc)
       IN  [k \in 1..Len(kept) |-> StripOutlineNumber(kept[k])]

(***************************************************************************)
(* Inputs of a run and answers of the collaborators.                        *)
(***************************************************************************)
\* project titles: an ordinary one and a whitespace-only one (both pass the
\* run-start check of line 1044, which only asks for a non-empty string)
Titles == { <<"A", "I", " ", "l", "a", "b">>, <<" ", " ">> }

RECURSIVE LetterLines(_)
\* the outline text "A\nB\n...": n one-letter lines
LetterLines(n) ==
  IF n = 0 THEN <<>>
  ELSE IF n = 1 THEN <<UpperCase[1]>>
  ELSE LetterLines(n - 1) \o <<"\n", UpperCase[n]>>

\* outline texts: empty and whitespace-only (default outline), two lines,
\* numbered lines with a blank line, a References entry and a marker-only
\* entry, and a long outline
TocInputs ==
  { <<>>,
    <<" ", "\n", " ">>,
    <<"A", "\n", "B">>,
    <<"1", ".", " ", "A", "\n", "\n", " ", "R", "e", "f", "e", "r", "e", "n", "c", "e", "s", " ", "\n", "2", ".">>,
    LetterLines(MaxOutline) }

\* texts the text-generation collaborator returns
GenTexts ==
  { <<"I", "n", "t", "r", "o", "\n", "\n", "-", " ", "a", "\n", "2", ".", " ", "b", "\n", "e", "n", "d">>,
    <<" ", "s", "t", "e", "p", " ", "o", "n", "e", "\n", "\n", "T", "e", "x", "t", " ">> }

\* messages of the exceptions the text-generation collaborator raises
ErrMsgs == { <<"b", "o", "o", "m">>, <<"m", "e", "t", "h", "o", "d", " ", "x">> }

(***************************************************************************)
(* Program constants.                                                       *)
(***************************************************************************)
\* line 318 with one attempt more
FourAttempts == 3 + 1

\* generate_content_with_groq(client, prompt, max_retries=3)
max_retries == 3

\* max_image_searches = 12
max_image_searches == 12

\* search_google_images(..., 3): the number of results asked for
num_results == 3

\* the per-section limit of lines 474 and 599
MaxImagesPerQuery == 2

\* the number of query variants tried, search_terms[:2]
QueryVariants == 2

\* img_data['title'][:80]
CaptionLimit == 80

\* the prefix of the string of line 345
ErrorPrefix == <<"E", "r", "r", "o", "r", " ", "g", "e", "n", "e", "r", "a", "t", "i", "n", "g", " ", "c", "o", "n", "t", "e", "n", "t", ":", " ">>

References == <<"r", "e", "f", "e", "r", "e", "n", "c", "e", "s">>

Bibliography == <<"b", "i", "b", "l", "i", "o", "g", "r", "a", "p", "h", "y">>

\* the (section_key, section_title) pairs of default_sections, lines 500-566;
\* a key is a one-element sequence
default_sections ==
  << [key |-> <<"introduction">>, title |-> <<"I", "n", "t", "r", "o", "d", "u", "c", "t", "i", "o", "n">>],
     [key |-> <<"literature_review">>, title |-> <<"L", "i", "t", "e", "r", "a", "t", "u", "r", "e", " ", "R", "e", "v", "i", "e", "w">>],
     [key |-> <<"methodology">>, title |-> <<"M", "e", "t", "h", "o", "d", "o", "l", "o", "g", "y">>],
     [key |-> <<"results">>, title |-> <<"R", "e", "s", "u", "l", "t", "s", " ", "a", "n", "d", " ", "A", "n", "a", "l", "y", "s", "i", "s">>],
     [key |-> <<"conclusion">>, title |-> <<"C", "o", "n", "c", "l", "u", "s", "i", "o", "n">>],
     [key |-> <<"references">>, title |-> <<"R", "e", "f", "e", "r", "e", "n", "c", "e", "s">>] >>

\* f"section_{i+1}", line 433: the prefix followed by the decimal digits
SectionKey(n) == <<"section_">> \o DecimalDigits(n)

\* key == 'section_' in place of key.startswith('section_')
IsExactlySectionPrefix(key) == key = <<"section_">>

\* key.startswith('section_')
IsSectionKey(key) == key[1] = "section_"

\* if parsed_toc: (a list that is not empty)
IsCustom(toc) == toc # NoList /\ toc # <<>>

\* the outline a run iterates: enumerate(parsed_toc) or default_sections
Outline(toc) ==
  IF IsCustom(toc)
  THEN [k \in 1..Len(toc) |-> [key |-> SectionKey(k), title |-> toc[k]]]
  ELSE default_sections

\* the caption of lines 481 and 606
Caption(t) ==
  IF Len(t) > CaptionLimit THEN SubSeq(t, 1, CaptionLimit) \o <<".", ".", ".">> ELSE t

\* the title of the k-th search result
ResultTitle(k) == <<"i", "m", "g">> \o DecimalDigits(k)

(***************************************************************************)
(* Document builder helpers (src/aa.py 622-692, 821-846).                   *)
(***************************************************************************)
\* the (section_key, section_title) pairs of default_section_order, 832-839
default_section_order ==
  << [key |-> <<"introduction">>, title |-> <<"I", "N", "T", "R", "O", "D", "U", "C", "T", "I", "O", "N">>],
     [key |-> <<"literature_review">>, title |-> <<"L", "I", "T", "E", "R", "A", "T", "U", "R", "E", " ", "R", "E", "V", "I", "E", "W">>],
     [key |-> <<"methodology">>, title |-> <<"M", "E", "T", "H", "O", "D", "O", "L", "O", "G", "Y">>],
     [key |-> <<"results">>, title |-> <<"R", "E", "S", "U", "L", "T", "S", " ", "A", "N", "D", " ", "A", "N", "A", "L", "Y", "S", "I", "S">>],
     [key |-> <<"conclusion">>, title |-> <<"C", "O", "N", "C", "L", "U", "S", "I", "O", "N">>],
     [key |-> <<"references">>, title |-> <<"R", "E", "F", "E", "R", "E", "N", "C", "E", "S">>] >>

\* code point order of the characters that follow the prefix of a key
DigitCode(c) == CHOOSE n \in 0..9 : DecimalDigits(n) = <<c>>

RECURSIVE KeyLess(_, _)
\* a < b for two keys, as Python compares strings
KeyLess(a, b) ==
  IF a = <<>> THEN b # <<>>
  ELSE IF b = <<>> THEN FALSE
  ELSE IF Head(a) = Head(b) THEN KeyLess(Tail(a), Tail(b))
  ELSE DigitCode(Head(a)) < DigitCode(Head(b))

RECURSIVE sorted(_)
\* sorted(keys)
sorted(keys) ==
  IF keys = {} THEN <<>>
  ELSE LET least == CHOOSE k \in keys : \A other \in keys \ {k} : KeyLess(k, other)
       IN  <<least>> \o sorted(keys \ {least})

\* lines 824-842: the keys the builder lays out, in its order
LayoutOrder(secs) ==
  IF \E key \in DOMAIN secs : IsSectionKey(key)
  THEN SelectSeq(sorted(DOMAIN secs), IsSectionKey)
  ELSE LET present(entry) == entry.key \in DOMAIN secs
           kept == SelectSeq(default_section_order, present)
       IN  [k \in 1..Len(kept) |-> kept[k].key]

\* the display title line 844 stores for a default key
DisplayTitle(key) ==
  LET k == CHOOSE n \in 1..Len(default_section_order) :
             default_section_order[n].key = key
  IN  default_section_order[k].title

\* lines 828 / 845: the is_references argument of add_section_content_safe
IsReferencesArg(custom, key) == ~custom /\ key = <<"references">>

\* lines 641-650: the references body, one hanging-indent line per kept line
ReferenceParagraphs(body) ==
  LET lines == split(body, <<"\n">>)
      stripped == [k \in 1..Len(lines) |-> strip(lines[k])]
      keep(line) == line # <<>> /\ ~startswith(lower(line), References)
      kept == SelectSeq(stripped, keep)
  IN  [k \in 1..Len(kept) |-> [kind |-> "hanging", text |-> kept[k]]]

\* lines 661-675: one paragraph of a regular body
BodyParagraph(text) ==
  IF Head(text) \in {Bullet, "-"}
  THEN [kind |-> "bullet", text |-> strip(lstrip(text, {Bullet, "-"}))]
  ELSE [kind |-> "justified", text |-> text]

\* lines 653-675: the regular body, split on blank lines
RegularParagraphs(body) ==
  Value(split(body, <<"\n", "\n">>), LAMBDA parts :
    Value(SelectSeq([k \in 1..Len(parts) |-> strip(parts[k])], NonEmpty),
          LAMBDA kept : [k \in 1..Len(kept) |-> BodyParagraph(kept[k])]))

\* lines 626-629: the heading paragraph
HeadingParagraph(counter, data, key) ==
  [kind |-> "heading", number |-> counter, key |-> key,
   text |-> IF "display_title" \in DOMAIN data THEN data.display_title
            ELSE data.title]

\* lines 678-686: what one image adds when add_image_to_document_safe
\* returns True: the picture, its caption if not blank, and a spacer
ImageParagraphs(img) ==
  <<[kind |-> "picture", image |-> img.image]>>
  \o (IF strip(img.caption) # <<>>
      THEN <<[kind |-> "caption", text |-> strip(img.caption)]>>
      ELSE <<>>)
  \o <<[kind |-> "blank"]>>

RECURSIVE ImagesParagraphs(_, _)
\* the paragraphs of the images for which embedded[k] is TRUE
ImagesParagraphs(imgs, embedded) ==
  IF imgs = <<>> THEN <<>>
  ELSE (IF Head(embedded) THEN ImageParagraphs(Head(imgs)) ELSE <<>>)
       \o ImagesParagraphs(Tail(imgs), Tail(embedded))

\* section_data['images'][:2]
FirstTwo(imgs) == SubSeq(imgs, 1, IF Len(imgs) < 2 THEN Len(imgs) ELSE 2)

\* lines 731-769: the paragraphs of the cover page
CoverParagraphs ==
  << [kind |-> "cover_title"], [kind |-> "blank"], [kind |-> "blank"],
     [kind |-> "blank"], [kind |-> "cover_subtitle"], [kind |-> "blank"],
     [kind |-> "blank"], [kind |-> "cover_author"], [kind |-> "blank"],
     [kind |-> "cover_date"] >>

\* lines 801-813: the table-of-contents placeholder
TocParagraphs == << [kind |-> "toc_heading"], [kind |-> "toc_placeholder"] >>

\* lines 862-882: the minimal document
MinimalParagraphs ==
  << [kind |-> "minimal_title"], [kind |-> "blank"], [kind |-> "minimal_author"],
     [kind |-> "blank"], [kind |-> "minimal_description"] >>

\* lines 885-886: the final fallback
FinalParagraphs == << [kind |-> "apology"] >>

PageBreak == [kind |-> "page_break"]

(***************************************************************************)
(* State of a run.                                                          *)
(***************************************************************************)
VARIABLES
  title,                 \* project title
  toc_items,             \* custom outline text
  google_api_key,        \* TRUE iff the image API key is a non-empty string
  cse_id,                \* TRUE iff the search-engine id is a non-empty string
  genText,               \* the text the collaborator returns when it succeeds
  pc,                    \* position of the run
  parsed_toc,            \* parse_toc_items(toc_items)
  i,                     \* 1-based position in the outline
  sections,              \* the section mapping: key -> record
  image_search_count,    \* line 426
  content,               \* content / formatted_content of the current section
  images,                \* images of the current section
  variant,               \* 1-based position in search_terms[:2]
  image_results,         \* results of the last search not yet iterated
  successful_downloads,  \* line 472 / 597
  attempt,               \* loop variable of generate_content_with_groq
  caller,                \* who called generate_content_with_groq
  groqLog,               \* events of the current call of generate_content_with_groq
  groqBudget,            \* failures the text-generation collaborator may still show
  groqRequests,          \* requests sent to the text-generation collaborator so far
  downloadBudget,        \* downloads that may still succeed
  searchCalls,           \* calls of search_google_images so far
  searchRequests,        \* first requests sent to the image-search collaborator
                         \* in a run; all requests of the call in SpecSearch
  downloadCalls,         \* calls of download_image_safe so far
  failed,                \* keys of the sections whose text generation failed
  doc,                   \* body of the document: the paragraphs added so far
  header,                \* TRUE iff header and footer are set
  layout_keys,           \* keys the builder still has to lay out
  section_counter,       \* line 821
  laid,                  \* keys handed to add_section_content_safe, in order
  built,                 \* which document create_word_document_safe returned
  stageFailures,         \* library failures inside guarded stages so far
  stageBudget,           \* how many of those failures the run may show
  fatalFaults,           \* TRUE iff the library may fail outside the stage guards
  text_in,               \* text given to format_content_with_lists
  text_once,             \* the function applied once to text_in
  text_twice,            \* the function applied to text_once
  fault_at,              \* where the library failed outside the stage guards
  http_outcome,          \* how the image server answers the download request
  content_type,          \* the content-type header of its response
  body_size,             \* the number of bytes it sends
  decodes,               \* TRUE iff the bytes open and convert as an image
  image_size,            \* image.size: <<width, height>>
  fetched,               \* what download_image_safe returned
  search_query,          \* the query given to search_google_images
  responses,             \* the responses received by the current search call
  warnings,              \* the warnings the current search call has shown
  backoffs,              \* the waits of line 131 in the current search call
  image_in,              \* the image given to add_image_to_document_safe
  caption_in,            \* the caption given to it
  temp_file,             \* the staging file of the current call
  unlink_attempts,       \* iterations of the clean-up loop so far
  embed_result           \* what add_image_to_document_safe returned

inputVars == <<title, toc_items, google_api_key, cse_id, genText>>

imageVars == <<image_search_count, images, variant, image_results,
               successful_downloads, downloadBudget, searchCalls, searchRequests,
               downloadCalls>>

groqVars == <<attempt, caller, groqLog, groqBudget, groqRequests, failed>>

asmVars == <<parsed_toc, i, content>>

docVars == <<doc, header, layout_keys, section_counter, laid, built, stageFailures>>

fmtVars == <<text_in, text_once, text_twice>>

faultVars == <<stageBudget, fatalFaults>>

fetchVars == <<http_outcome, content_type, body_size, decodes, image_size, fetched>>

searchVars == <<search_query, responses, warnings, backoffs>>

embedVars == <<image_in, caption_in, temp_file, unlink_attempts, embed_result>>

unitVars == <<fetchVars, searchVars, embedVars>>

vars == <<inputVars, pc, asmVars, sections, imageVars, groqVars, docVars,
          faultVars, fmtVars, unitVars, fault_at>>

\* the outline entry being processed
Entry == Outline(parsed_toc)[i]

\* the longest outline text
LongToc == LetterLines(MaxOutline)

\* an ordinary title and the first of the generated texts
PlainTitle == CHOOSE t \in Titles : split_words(t) # <<>>

PlainText == CHOOSE t \in GenTexts : contains(t, <<"\n", "\n">>)

\* the outline texts that are not the longest one
ShortTocs == TocInputs \ {LongToc}

\* every collaborator works, no download succeeds: all inputs
PlainRun ==
  /\ title \in Titles /\ toc_items \in ShortTocs /\ genText \in GenTexts
  /\ google_api_key \in BOOLEAN /\ cse_id \in BOOLEAN
  /\ groqBudget = 0 /\ downloadBudget = 0 /\ stageBudget = 0 /\ fatalFaults = FALSE

\* text generation may fail
GroqFaultRun ==
  /\ title = PlainTitle /\ toc_items \in ShortTocs /\ genText \in GenTexts
  /\ google_api_key \in BOOLEAN /\ cse_id \in BOOLEAN
  /\ groqBudget = MaxGroqFailures
  /\ downloadBudget = 0 /\ stageBudget = 0 /\ fatalFaults = FALSE

\* downloads may succeed
DownloadRun ==
  /\ title = PlainTitle /\ toc_items \in ShortTocs /\ strip(toc_items) = toc_items
  /\ genText = PlainText
  /\ google_api_key = TRUE /\ cse_id = TRUE
  /\ downloadBudget = MaxDownloadsOk
  /\ groqBudget = 0 /\ stageBudget = 0 /\ fatalFaults = FALSE

\* the document library may fail inside the stage guards
StageFaultRun ==
  /\ title = PlainTitle /\ toc_items \in ShortTocs /\ genText \in GenTexts
  /\ google_api_key \in BOOLEAN /\ cse_id = google_api_key
  /\ stageBudget = MaxStageFailures
  /\ groqBudget = 0 /\ downloadBudget = 0 /\ fatalFaults = FALSE

\* the document library may fail outside the stage guards
FatalFaultRun ==
  /\ title = PlainTitle /\ toc_items \in ShortTocs /\ genText \in GenTexts
  /\ google_api_key = FALSE /\ cse_id = FALSE
  /\ fatalFaults = TRUE
  /\ groqBudget = 0 /\ downloadBudget = 0 /\ stageBudget = 0

\* the longest outline, with image credentials; at most one download succeeds
LongRun ==
  /\ title = PlainTitle /\ toc_items = LongToc /\ genText = PlainText
  /\ google_api_key = TRUE /\ cse_id = TRUE
  /\ downloadBudget \in {0, 1}
  /\ groqBudget = 0 /\ stageBudget = 0 /\ fatalFaults = FALSE

\* download_image_safe, search_google_images and add_image_to_document_safe
\* seen on their own are not running
IdleUnits ==
  /\ http_outcome = "idle"
  /\ content_type = None
  /\ body_size = 0
  /\ decodes = FALSE
  /\ image_size = <<0, 0>>
  /\ fetched = "idle"
  /\ search_query = None
  /\ responses = <<>>
  /\ warnings = <<>>
  /\ backoffs = 0
  /\ image_in = "idle"
  /\ caption_in = None
  /\ temp_file = "not_created"
  /\ unlink_attempts = 0
  /\ embed_result = "idle"

\* A run shows at most one class of collaborator trouble: failing text
\* generation, succeeding downloads, or failures of the document library
\* inside or outside the stage guards.
Init ==
  /\ \/ PlainRun
     \/ GroqFaultRun
     \/ DownloadRun
     \/ StageFaultRun
     \/ FatalFaultRun
     \/ LongRun
  /\ pc = "start"
  /\ parsed_toc = NoList
  /\ i = 0
  /\ sections = <<>>
  /\ image_search_count = 0
  /\ content = None
  /\ images = <<>>
  /\ variant = 0
  /\ image_results = <<>>
  /\ successful_downloads = 0
  /\ attempt = 0
  /\ caller = "nobody"
  /\ groqLog = <<>>
  /\ groqRequests = 0
  /\ searchCalls = 0
  /\ searchRequests = 0
  /\ downloadCalls = 0
  /\ failed = {}
  /\ stageFailures = 0
  /\ text_in = None
  /\ text_once = None
  /\ text_twice = None
  /\ doc = <<>>
  /\ header = FALSE
  /\ layout_keys = <<>>
  /\ section_counter = 0
  /\ laid = <<>>
  /\ built = "nothing"
  /\ fault_at = "none"
  /\ IdleUnits

(***************************************************************************)
(* generate_project_sections (src/aa.py 402-619).                           *)
(***************************************************************************)
\* lines 405-433 / 497-569: parse the outline, reset the counter and enter
\* the loop; both outlines have at least one entry
StartSections ==
  /\ pc = "start"
  /\ parsed_toc' = parse_toc_items(toc_items)
  /\ image_search_count' = 0
  /\ sections' = <<>>
  /\ i' = 1
  /\ attempt' = 0
  /\ caller' = "section"
  /\ groqLog' = <<>>
  /\ pc' = "generate"
  /\ UNCHANGED <<inputVars, fmtVars, content, images, variant, image_results,
                 successful_downloads, downloadBudget, searchCalls, searchRequests,
                 downloadCalls, groqBudget, groqRequests, failed, docVars, faultVars,
                 unitVars, fault_at>>

\* where generate_content_with_groq returns to
ReturnPoint(who) == IF who = "section" THEN "format" ELSE "abstract_text"

\* line 341 with the bound off by one: the last failure sleeps as well
RetryAfterLastFailure(a) == a < max_retries

\* line 341: if attempt < max_retries - 1
RetryAgain(a) == a < max_retries - 1

\* one iteration of the loop of generate_content_with_groq, lines 320-345;
\* a loop that ends without a return makes the function return None
GroqAttempt ==
  /\ pc = "generate"
  /\ IF attempt >= max_retries
     THEN /\ content' = None
          /\ pc' = ReturnPoint(caller)
          /\ UNCHANGED <<attempt, groqLog, groqBudget, groqRequests, failed>>
     ELSE \/ /\ content' = genText
             /\ groqLog' = Append(groqLog, "ok")
             /\ groqRequests' = groqRequests + 1
             /\ pc' = ReturnPoint(caller)
             /\ UNCHANGED <<attempt, groqBudget, failed>>
          \/ \E e \in ErrMsgs :
               /\ groqBudget > 0
               /\ groqBudget' = groqBudget - 1
               /\ groqRequests' = groqRequests + 1
               /\ IF RetryAgain(attempt)
                  THEN /\ attempt' = attempt + 1
                       /\ groqLog' = groqLog \o <<"fail", "sleep">>
                       /\ UNCHANGED <<content, pc, failed>>
                  ELSE /\ content' = ErrorPrefix \o e
                       /\ groqLog' = Append(groqLog, "fail")
                       /\ pc' = ReturnPoint(caller)
                       /\ failed' = IF caller = "section"
                                    THEN failed \cup {Entry.key} ELSE failed
                       /\ UNCHANGED attempt
  /\ UNCHANGED <<inputVars, fmtVars, parsed_toc, i, sections, imageVars, caller,
                 docVars, faultVars,
                 unitVars, fault_at>>

\* lines 454-456: the custom path's condition for searching images
CustomImageGuard(key, cse, count, section_title) ==
  /\ key
  /\ cse
  /\ count < max_image_searches
  /\ lower(section_title) \notin {References, Bibliography}

\* lines 579-580 asking for only one of the two credentials
DefaultImageGuardEitherCredential(key, cse, count, section_key) ==
  /\ (key \/ cse)
  /\ section_key # <<"references">>
  /\ count < max_image_searches

\* lines 579-580: the default path's condition for searching images
DefaultImageGuard(key, cse, count, section_key) ==
  /\ key
  /\ cse
  /\ section_key # <<"references">>
  /\ count < max_image_searches

\* lines 450 / 574-575: which sections go through format_content_with_lists
AppliesFormatter(custom, section_key) ==
  custom \/ section_key # <<"references">>

\* lines 450-463 / 574-592: format the text, reset the image list and decide
\* whether to search; building search_terms evaluates title.split()[0], which
\* raises IndexError for a title without a word; formatting None raises too
FormatAndGuard ==
  /\ pc = "format"
  /\ LET custom == IsCustom(parsed_toc)
         guard == IF custom
                  THEN CustomImageGuard(google_api_key, cse_id,
                                        image_search_count, Entry.title)
                  ELSE DefaultImageGuard(google_api_key, cse_id,
                                         image_search_count, Entry.key)
         formats == AppliesFormatter(custom, Entry.key)
     IN  IF formats /\ content = None
         THEN /\ pc' = "raised"
              /\ UNCHANGED <<content, images, variant>>
         ELSE /\ content' = IF formats THEN format_content_with_lists(content)
                            ELSE content
              /\ images' = <<>>
              /\ IF ~guard
                 THEN pc' = "emit" /\ UNCHANGED variant
                 ELSE IF custom /\ split_words(title) = <<>>
                      THEN pc' = "raised" /\ UNCHANGED variant
                      ELSE pc' = "search" /\ variant' = 1
  /\ groqLog' = <<>>
  /\ UNCHANGED <<inputVars, fmtVars, parsed_toc, i, sections, image_search_count,
                 image_results, successful_downloads, downloadBudget, searchCalls,
                 searchRequests, downloadCalls, attempt, caller, groqBudget, groqRequests,
                 failed, docVars, faultVars,
                 unitVars, fault_at>>

\* line 466 with > for >=
QuotaExceeded(count) == count > max_image_searches

\* line 466: if image_search_count >= max_image_searches: break
QuotaExhausted(count) == count >= max_image_searches

\* the query of the current search: search_terms[variant - 1] of lines
\* 459-463, or search_query of lines 583-592
SearchTerm ==
  IF IsCustom(parsed_toc)
  THEN IF variant = 1 THEN title \o <<" ">> \o Entry.title
       ELSE Entry.title \o <<" ", "r", "e", "s", "e", "a", "r", "c", "h", " ", "m", "e", "t", "h", "o", "d", "o", "l", "o", "g", "y">>
  ELSE title \o
       (CASE Entry.key = <<"introduction">> -> <<" ", "o", "v", "e", "r", "v", "i", "e", "w", " ", "c", "o", "n", "c", "e", "p", "t">>
          [] Entry.key = <<"methodology">> -> <<" ", "m", "e", "t", "h", "o", "d", "o", "l", "o", "g", "y", " ", "r", "e", "s", "e", "a", "r", "c", "h", " ", "m", "e", "t", "h", "o", "d", "s">>
          [] Entry.key = <<"literature_review">> -> <<" ", "l", "i", "t", "e", "r", "a", "t", "u", "r", "e", " ", "r", "e", "s", "e", "a", "r", "c", "h", " ", "r", "e", "v", "i", "e", "w">>
          [] Entry.key = <<"results">> -> <<" ", "r", "e", "s", "u", "l", "t", "s", " ", "a", "n", "a", "l", "y", "s", "i", "s", " ", "d", "a", "t", "a">>
          [] OTHER -> <<" ">> \o Entry.title)

\* lines 84-88 of search_google_images: the early returns that send no request
SendsRequest(key, cse, query) ==
  key /\ cse /\ query # <<>> /\ strip(query) # <<>>

\* lines 465-472 / 594-597: one call of search_google_images; unless it
\* returns early the collaborator is asked and the call returns up to
\* num_results results (the requests and warnings of one call are followed
\* in SpecSearch)
SearchImages ==
  /\ pc = "search"
  /\ IF IsCustom(parsed_toc) /\ QuotaExhausted(image_search_count)
     THEN /\ pc' = "emit"
          /\ UNCHANGED <<image_results, image_search_count,
                         successful_downloads, searchCalls, searchRequests>>
     ELSE /\ IF SendsRequest(google_api_key, cse_id, SearchTerm)
             THEN /\ \E n \in 0..num_results :
                       image_results' =
                         [k \in 1..n |-> [url |-> k, title |-> ResultTitle(k)]]
                  /\ searchRequests' = searchRequests + 1
             ELSE /\ image_results' = <<>>
                  /\ UNCHANGED searchRequests
          /\ searchCalls' = searchCalls + 1
          /\ image_search_count' = image_search_count + 1
          /\ successful_downloads' = 0
          /\ pc' = "download"
  /\ UNCHANGED <<inputVars, fmtVars, parsed_toc, i, sections, content, images,
                 variant, downloadBudget, downloadCalls, groqVars, docVars,
                 faultVars,
                 unitVars, fault_at>>

\* lines 474 / 599 with > for >=
SectionOverfull(n) == n > MaxImagesPerQuery

\* lines 474 / 599: if successful_downloads >= 2: break
SectionFull(n) == n >= MaxImagesPerQuery

\* line 485 leaving the loop of queries only when the section is full
GotTwoImages(n) == n >= MaxImagesPerQuery

\* line 485: if successful_downloads > 0: break
GotImages(n) == n > 0

\* lines 473-486 / 598-608: one iteration of the download loop, or its end
DownloadImage ==
  /\ pc = "download"
  /\ IF image_results = <<>> \/ SectionFull(successful_downloads)
     THEN /\ IF IsCustom(parsed_toc) /\ ~GotImages(successful_downloads)
                /\ variant < QueryVariants
             THEN pc' = "search" /\ variant' = variant + 1
             ELSE pc' = "emit" /\ UNCHANGED variant
          /\ UNCHANGED <<images, image_results, successful_downloads,
                         downloadBudget, downloadCalls>>
     ELSE /\ downloadCalls' = downloadCalls + 1
          /\ image_results' = Tail(image_results)
          /\ \/ /\ downloadBudget > 0
                /\ downloadBudget' = downloadBudget - 1
                /\ images' = Append(images,
                     [image |-> Head(image_results).url,
                      caption |-> Caption(Head(image_results).title)])
                /\ successful_downloads' = successful_downloads + 1
             \/ UNCHANGED <<images, successful_downloads, downloadBudget>>
          /\ UNCHANGED <<pc, variant>>
  /\ UNCHANGED <<inputVars, fmtVars, parsed_toc, i, sections, content,
                 image_search_count, searchCalls, searchRequests, groqVars,
                 docVars, faultVars,
                 unitVars, fault_at>>

\* lines 488-495 / 610-617: store the record and go on with the next entry
EmitSection ==
  /\ pc = "emit"
  /\ sections' = (Entry.key :> [title |-> Entry.title, content |-> content,
                                 images |-> images]) @@ sections
  /\ IF i < Len(Outline(parsed_toc))
     THEN /\ i' = i + 1
          /\ attempt' = 0
          /\ pc' = "generate"
     ELSE /\ pc' = "returned"
          /\ UNCHANGED <<i, attempt>>
  /\ UNCHANGED <<inputVars, fmtVars, parsed_toc, content, imageVars, caller,
                 groqLog, groqBudget, groqRequests, failed, docVars, faultVars,
                 unitVars, fault_at>>

(***************************************************************************)
(* create_word_document_safe (src/aa.py 695-856) and                        *)
(* create_minimal_document (src/aa.py 859-887).                             *)
(***************************************************************************)
\* The outcomes of a guarded stage that adds the paragraphs els: all of them,
\* or, when a library call fails, those added before the failing call.  The
\* result is a set of pairs <<paragraphs added, failures used>>.
StageOutcomes(els, budget) ==
  {<<els, 0>>} \cup
  (IF budget > 0 THEN {<<SubSeq(els, 1, j), 1>> : j \in 0..(Len(els) - 1)} ELSE {})

\* doc.add_page_break() of lines 775, 797 and 818 stands outside the stage
\* guards: when it fails the build falls back to the minimal document
AfterPageBreak(paragraphs, next) ==
  \/ /\ doc' = Append(paragraphs, PageBreak)
     /\ pc' = next
     /\ UNCHANGED fault_at
  \/ /\ fatalFaults
     /\ doc' = paragraphs
     /\ pc' = "minimal"
     /\ fault_at' = "page_break"

\* lines 700-726: Document() (line 700) and the margins (lines 703-707) are
\* unguarded; the styles and the header/footer are guarded
CreateDocument ==
  /\ pc = "returned"
  /\ \/ /\ doc' = <<>>
        /\ pc' = "cover"
        /\ UNCHANGED fault_at
        /\ \/ header' = TRUE /\ UNCHANGED stageFailures
           \/ /\ stageFailures < stageBudget
              /\ stageFailures' = stageFailures + 1
              /\ header' = FALSE
     \/ /\ fatalFaults
        /\ pc' = "minimal"
        /\ fault_at' \in {"Document", "margins"}
        /\ UNCHANGED <<doc, header, stageFailures>>
  /\ UNCHANGED <<inputVars, fmtVars, asmVars, sections, imageVars, groqVars,
                 layout_keys, section_counter, laid, built, faultVars,
                 unitVars>>

\* lines 728-775: the cover page and the page break after it
CoverPage ==
  /\ pc = "cover"
  /\ \E out \in StageOutcomes(CoverParagraphs, stageBudget - stageFailures) :
       /\ stageFailures' = stageFailures + out[2]
       /\ AfterPageBreak(doc \o out[1], "abstract")
  /\ UNCHANGED <<inputVars, fmtVars, asmVars, sections, imageVars, groqVars, header,
                 layout_keys, section_counter, laid, built, faultVars,
                 unitVars>>

\* lines 778-787: the abstract heading, then the call of
\* generate_formal_abstract; a failing heading skips the rest of the stage
AbstractHeading ==
  /\ pc = "abstract"
  /\ \/ /\ doc' = Append(doc, [kind |-> "abstract_heading"])
        /\ pc' = "generate"
        /\ caller' = "abstract"
        /\ attempt' = 0
        /\ groqLog' = <<>>
        /\ UNCHANGED <<stageFailures, fault_at>>
     \/ /\ stageFailures < stageBudget
        /\ stageFailures' = stageFailures + 1
        /\ AfterPageBreak(doc, "toc")
        /\ UNCHANGED <<caller, attempt, groqLog>>
  /\ UNCHANGED <<inputVars, fmtVars, asmVars, sections, imageVars, groqBudget,
                 groqRequests, failed,
                 header, layout_keys, section_counter, laid, built, faultVars,
                 unitVars>>

\* lines 788-797: the abstract paragraph and the page break after it
AbstractText ==
  /\ pc = "abstract_text"
  /\ \E out \in StageOutcomes(<<[kind |-> "abstract", text |-> content]>>,
                              stageBudget - stageFailures) :
       /\ stageFailures' = stageFailures + out[2]
       /\ AfterPageBreak(doc \o out[1], "toc")
  /\ UNCHANGED <<inputVars, fmtVars, asmVars, sections, imageVars, groqVars, header,
                 layout_keys, section_counter, laid, built, faultVars,
                 unitVars>>

\* lines 799-818: the table-of-contents placeholder and the page break
TocPage ==
  /\ pc = "toc"
  /\ \E out \in StageOutcomes(TocParagraphs, stageBudget - stageFailures) :
       /\ stageFailures' = stageFailures + out[2]
       /\ AfterPageBreak(doc \o out[1], "sections")
  /\ UNCHANGED <<inputVars, fmtVars, asmVars, sections, imageVars, groqVars, header,
                 layout_keys, section_counter, laid, built, faultVars,
                 unitVars>>

\* lines 821-841: choose the branch and the order of the keys
BeginSections ==
  /\ pc = "sections"
  /\ section_counter' = 1
  /\ layout_keys' = LayoutOrder(sections)
  /\ pc' = "layout"
  /\ UNCHANGED <<inputVars, fmtVars, asmVars, sections, imageVars, groqVars,
                 doc, header, laid, built, stageFailures, faultVars,
                 unitVars, fault_at>>

\* line 844: section_data['display_title'] = section_title, default branch only
WithDisplayTitle(custom, data, key) ==
  IF custom THEN data
  ELSE [f \in DOMAIN data \cup {"display_title"} |->
          IF f = "display_title" THEN DisplayTitle(key) ELSE data[f]]

\* lines 636-675: the body paragraphs of a section
BodyParagraphs(data, is_references) ==
  IF is_references THEN ReferenceParagraphs(data.content)
  ELSE RegularParagraphs(data.content)

\* lines 826-829 / 841-846 with add_section_content_safe, lines 622-692: lay
\* out the next key.  add_section_content_safe catches every failure of its
\* own; an image that cannot be embedded is skipped.
LayoutSection ==
  /\ pc = "layout"
  /\ layout_keys # <<>>
  /\ LET key == Head(layout_keys)
         custom == IsSectionKey(key)
         data == WithDisplayTitle(custom, sections[key], key)
         imgs == FirstTwo(data.images)
     IN  /\ sections' = [sections EXCEPT ![key] = data]
         /\ \E embedded \in [1..Len(imgs) -> BOOLEAN] :
              LET skipped == Cardinality({k \in 1..Len(imgs) : ~embedded[k]})
                  els == <<HeadingParagraph(section_counter, data, key)>>
                         \o BodyParagraphs(data, IsReferencesArg(custom, key))
                         \o ImagesParagraphs(imgs, embedded)
                         \o <<[kind |-> "blank"]>>
              IN  /\ skipped <= stageBudget - stageFailures
                  /\ \E out \in StageOutcomes(els, stageBudget - stageFailures - skipped) :
                       /\ stageFailures' = stageFailures + skipped + out[2]
                       /\ doc' = doc \o out[1]
         /\ laid' = Append(laid, key)
  /\ section_counter' = section_counter + 1
  /\ layout_keys' = Tail(layout_keys)
  /\ UNCHANGED <<inputVars, fmtVars, pc, asmVars, imageVars, groqVars, header,
                 built, faultVars,
                 unitVars, fault_at>>

\* line 851: return doc
ReturnDocument ==
  /\ pc = "layout"
  /\ layout_keys = <<>>
  /\ built' = "main"
  /\ pc' = "done"
  /\ UNCHANGED <<inputVars, fmtVars, asmVars, sections, imageVars, groqVars,
                 doc, header, layout_keys, section_counter, laid, stageFailures,
                 faultVars,
                 unitVars, fault_at>>

\* lines 853-882: the outer handler calls create_minimal_document, whose try
\* block builds a new document
MinimalDocument ==
  /\ pc = "minimal"
  /\ \/ /\ doc' = MinimalParagraphs
        /\ built' = "minimal"
        /\ pc' = "done"
     \/ /\ fatalFaults
        /\ pc' = "final"
        /\ UNCHANGED <<doc, built>>
  /\ UNCHANGED <<inputVars, fmtVars, asmVars, sections, imageVars, groqVars,
                 header, layout_keys, section_counter, laid, stageFailures,
                 faultVars,
                 unitVars, fault_at>>

\* lines 883-887: the final fallback runs inside the except clause, outside
\* every try block: a failure of Document() or add_paragraph leaves
\* create_minimal_document, and with it create_word_document_safe
FinalFallback ==
  /\ pc = "final"
  /\ \/ /\ doc' = FinalParagraphs
        /\ built' = "final"
        /\ pc' = "done"
     \/ /\ fatalFaults
        /\ pc' = "build_raised"
        /\ UNCHANGED <<doc, built>>
  /\ UNCHANGED <<inputVars, fmtVars, asmVars, sections, imageVars, groqVars,
                 header, layout_keys, section_counter, laid, stageFailures,
                 faultVars,
                 unitVars, fault_at>>

Next ==
  \/ StartSections
  \/ GroqAttempt
  \/ FormatAndGuard
  \/ SearchImages
  \/ DownloadImage
  \/ EmitSection
  \/ CreateDocument
  \/ CoverPage
  \/ AbstractHeading
  \/ AbstractText
  \/ TocPage
  \/ BeginSections
  \/ LayoutSection
  \/ ReturnDocument
  \/ MinimalDocument
  \/ FinalFallback

Spec == Init /\ [][Next]_vars

(***************************************************************************)
(* format_content_with_lists as a function of its input: a second           *)
(* specification that draws a text and applies the function twice.          *)
(***************************************************************************)
\* the pieces the input texts are built from
Tokens ==
  { <<Bullet>>, <<"-">>, <<"*">>, <<"1">>, <<".">>, <<" ">>, <<"x">>, <<"\n">>,
    <<"s", "t", "e", "p", " ">> }

RECURSIVE TokenTexts(_)
\* the texts of at most n tokens
TokenTexts(n) ==
  IF n = 0 THEN {<<>>}
  ELSE LET shorter == TokenTexts(n - 1)
       IN  shorter \cup {t \o tok : t \in shorter, tok \in Tokens}

\* a run of n letters
Padding(n) == [k \in 1..n |-> "x"]

\* lines with several markers, a keyword line that starts with digits, a
\* keyword in capitals, keyword lines just below and at the length limit,
\* marker lines as long as the limit, a number with a decimal point, and
\* paragraphs separated by a blank line
ExampleTexts ==
  { <<"1", ".", " ", "2", ".", " ", "x">>,
    <<"-", " ", "*", " ", "x">>,
    <<"1", ".", "-", "x">>,
    <<"2", " ", "s", "t", "e", "p", " ", "a">>,
    <<"1", "2", ".", " ", "M", "e", "t", "h", "o", "d", " ", "A", "\n", "\n", " ", " ", "t", "e", "x", "t", " ">>,
    <<"T", "h", "e", " ", "a", "p", "p", "r", "o", "a", "c", "h", " ", "t", "a", "k", "e", "n", "\n", "3", ".", "1", " ", "x">>,
    <<"s", "t", "e", "p", " ">> \o Padding(LineLimit - 6),
    <<"s", "t", "e", "p", " ">> \o Padding(LineLimit - 5),
    <<"-", " ">> \o Padding(LineLimit - 2),
    <<"7", ".">> \o Padding(LineLimit - 2),
    <<"S", "T", "E", "P", " ", "x">>,
    <<"1", ".", "5", " ", "m", "i", "l", "l", "i", "o", "n">>,
    <<"I", "n", "t", "r", "o", "\n", "\n", "-", " ", "a", "\n", "\n", " ", "e", "n", "d">> }

FormatInputs == TokenTexts(MaxTokens) \cup ExampleTexts

FormatInit ==
  /\ text_in \in FormatInputs
  /\ text_once = None
  /\ text_twice = None
  /\ pc = "format_input"
  /\ title = PlainTitle /\ toc_items = <<>> /\ genText = PlainText
  /\ google_api_key = FALSE /\ cse_id = FALSE
  /\ groqBudget = 0 /\ downloadBudget = 0 /\ stageBudget = 0
  /\ fatalFaults = FALSE
  /\ parsed_toc = NoList
  /\ i = 0
  /\ sections = <<>>
  /\ image_search_count = 0
  /\ content = None
  /\ images = <<>>
  /\ variant = 0
  /\ image_results = <<>>
  /\ successful_downloads = 0
  /\ attempt = 0
  /\ caller = "nobody"
  /\ groqLog = <<>>
  /\ groqRequests = 0
  /\ searchCalls = 0
  /\ searchRequests = 0
  /\ downloadCalls = 0
  /\ failed = {}
  /\ stageFailures = 0
  /\ doc = <<>>
  /\ header = FALSE
  /\ layout_keys = <<>>
  /\ section_counter = 0
  /\ laid = <<>>
  /\ built = "nothing"
  /\ fault_at = "none"
  /\ IdleUnits

mainVars == <<inputVars, asmVars, sections, imageVars, groqVars, docVars, faultVars>>

FormatOnce ==
  /\ pc = "format_input"
  /\ text_once' = format_content_with_lists(text_in)
  /\ pc' = "format_once"
  /\ UNCHANGED <<mainVars, unitVars, fault_at, text_in, text_twice>>

FormatTwice ==
  /\ pc = "format_once"
  /\ text_twice' = format_content_with_lists(text_once)
  /\ pc' = "format_twice"
  /\ UNCHANGED <<mainVars, unitVars, fault_at, text_in, text_once>>

NextFormat ==
  \/ FormatOnce
  \/ FormatTwice

SpecFormat == FormatInit /\ [][NextFormat]_vars

(***************************************************************************)
(* download_image_safe (src/aa.py 162-229) as a function of what the image  *)
(* server sends: a third specification that draws the server's answer and   *)
(* walks through the checks of the function.                                *)
(***************************************************************************)
\* max_size_mb * 1024 * 1024 with max_size_mb=5, lines 162 and 189
max_size_bytes == 5 * 1024 * 1024

\* line 198: if len(image_data) < 1024
min_size_bytes == 1024

\* line 216
max_dimension == 800

\* line 223: if min(image.size) < 100
min_dimension == 100

\* the names of line 183
ImageTypes ==
  { <<"i", "m", "a", "g", "e", "/", "j", "p", "e", "g">>,
    <<"i", "m", "a", "g", "e", "/", "j", "p", "g">>,
    <<"i", "m", "a", "g", "e", "/", "p", "n", "g">> }

\* line 183 accepting every image type
IsAnyImageType(ct) == contains(ct, <<"i", "m", "a", "g", "e", "/">>)

\* line 183: any(img_type in content_type for img_type in [...])
IsImageType(ct) == \E img_type \in ImageTypes : contains(ct, img_type)

\* lines 191-195: the running total of the chunks passes the cap iff the
\* whole body does
ExceedsCap(size) == size > max_size_bytes

\* line 198
BelowMinimumSize(size) == size < min_size_bytes

\* max(image.size) and min(image.size)
Larger(size) == IF size[1] >= size[2] THEN size[1] ELSE size[2]

Smaller(size) == IF size[1] <= size[2] THEN size[1] ELSE size[2]

\* line 217 looking at the width only
WiderThanMax(size) == size[1] > max_dimension

\* line 217: if max(image.size) > max_dimension
NeedsResize(size) == Larger(size) > max_dimension

\* lines 218-219: int(dim * ratio) with ratio = max_dimension / largest.  The
\* quotient and the product are rounded to doubles before int() truncates:
\* where the exact product is a whole number k the result is k or k - 1
\* (int(161 * (800 / 1288)) is 99), elsewhere it is the exact floor.
Scaled(dim, largest) ==
  LET exact == (dim * max_dimension) \div largest
  IN  IF (dim * max_dimension) % largest = 0 /\ exact > 0
      THEN {exact, exact - 1}
      ELSE {exact}

\* lines 217-220: the sizes the image may have after the resize step
Resized(size) ==
  IF NeedsResize(size)
  THEN {<<w, h>> : w \in Scaled(size[1], Larger(size)),
                   h \in Scaled(size[2], Larger(size))}
  ELSE {size}

\* line 223
BelowMinimumDimension(size) == Smaller(size) < min_dimension

\* what happens to the request of lines 178-179
HttpOutcomes == {"ok", "error_status", "no_response"}

\* content-type headers: the three accepted names, in capitals and with a
\* parameter, other image types, a page, and no header ('' by line 182)
ContentTypes ==
  { <<"i", "m", "a", "g", "e", "/", "j", "p", "e", "g">>,
    <<"i", "m", "a", "g", "e", "/", "p", "n", "g">>,
    <<"I", "m", "a", "g", "e", "/", "J", "P", "G">>,
    <<"i", "m", "a", "g", "e", "/", "p", "n", "g", ";", " ", "c", "h", "a", "r", "s", "e", "t", "=", "b", "i", "n", "a", "r", "y">>,
    <<"i", "m", "a", "g", "e", "/", "g", "i", "f">>,
    <<"i", "m", "a", "g", "e", "/", "w", "e", "b", "p">>,
    <<"t", "e", "x", "t", "/", "h", "t", "m", "l", ";", " ", "c", "h", "a", "r", "s", "e", "t", "=", "u", "t", "f", "-", "8">>,
    <<>> }

\* body sizes around the two limits
BodySizes ==
  {0, min_size_bytes - 1, min_size_bytes, max_size_bytes, max_size_bytes + 1}

\* widths and heights around the two limits, and sizes whose scaled value
\* is a whole number
ImageSides == {1, 99, 100, 101, 161, 800, 801, 808, 1288, 1600, 6400, 8000}

\* the variables of a whole run other than the credentials, the search
\* result and the document, when no run is going on
IdleRest ==
  /\ title = PlainTitle /\ toc_items = <<>> /\ genText = PlainText
  /\ groqBudget = 0 /\ downloadBudget = 0 /\ stageBudget = 0
  /\ fatalFaults = FALSE
  /\ parsed_toc = NoList
  /\ i = 0
  /\ sections = <<>>
  /\ image_search_count = 0
  /\ content = None
  /\ images = <<>>
  /\ variant = 0
  /\ successful_downloads = 0
  /\ attempt = 0
  /\ caller = "nobody"
  /\ groqLog = <<>>
  /\ groqRequests = 0
  /\ searchCalls = 0
  /\ downloadCalls = 0
  /\ failed = {}
  /\ stageFailures = 0
  /\ header = FALSE
  /\ layout_keys = <<>>
  /\ section_counter = 0
  /\ laid = <<>>
  /\ built = "nothing"
  /\ fault_at = "none"
  /\ text_in = None
  /\ text_once = None
  /\ text_twice = None

IdleSearch ==
  /\ google_api_key = FALSE /\ cse_id = FALSE
  /\ image_results = <<>>
  /\ searchRequests = 0
  /\ search_query = None
  /\ responses = <<>>
  /\ warnings = <<>>
  /\ backoffs = 0

IdleEmbed ==
  /\ doc = <<>>
  /\ image_in = "idle"
  /\ caption_in = None
  /\ temp_file = "not_created"
  /\ unlink_attempts = 0
  /\ embed_result = "idle"

IdleFetch ==
  /\ http_outcome = "idle"
  /\ content_type = None
  /\ body_size = 0
  /\ decodes = FALSE
  /\ image_size = <<0, 0>>
  /\ fetched = "idle"

\* the variables download_image_safe does not touch
fetchFrame == <<mainVars, fmtVars, fault_at, searchVars, embedVars>>

FetchInit ==
  /\ http_outcome \in HttpOutcomes
  /\ content_type \in ContentTypes
  /\ body_size \in BodySizes
  /\ decodes \in BOOLEAN
  /\ image_size \in ImageSides \X ImageSides
  /\ fetched = "pending"
  /\ pc = "fetch_request"
  /\ IdleRest /\ IdleSearch /\ IdleEmbed

\* lines 178-179: requests.get and raise_for_status
FetchRequest ==
  /\ pc = "fetch_request"
  /\ IF http_outcome = "ok"
     THEN pc' = "fetch_type" /\ UNCHANGED fetched
     ELSE pc' = "fetch_returned" /\ fetched' = "none"
  /\ UNCHANGED <<fetchFrame, http_outcome, content_type, body_size, decodes,
                 image_size>>

\* lines 182-184: the declared content type, in lower case
FetchCheckType ==
  /\ pc = "fetch_type"
  /\ IF IsImageType(lower(content_type))
     THEN pc' = "fetch_read" /\ UNCHANGED fetched
     ELSE pc' = "fetch_returned" /\ fetched' = "none"
  /\ UNCHANGED <<fetchFrame, http_outcome, content_type, body_size, decodes,
                 image_size>>

\* lines 187-199: read the body under the cap, then the minimum size
FetchRead ==
  /\ pc = "fetch_read"
  /\ IF ExceedsCap(body_size) \/ BelowMinimumSize(body_size)
     THEN pc' = "fetch_returned" /\ fetched' = "none"
     ELSE pc' = "fetch_decode" /\ UNCHANGED fetched
  /\ UNCHANGED <<fetchFrame, http_outcome, content_type, body_size, decodes,
                 image_size>>

\* lines 202-213: Image.open and the conversion to RGB; an exception of
\* either reaches the handler of line 228
FetchDecode ==
  /\ pc = "fetch_decode"
  /\ IF decodes
     THEN pc' = "fetch_resize" /\ UNCHANGED fetched
     ELSE pc' = "fetch_returned" /\ fetched' = "none"
  /\ UNCHANGED <<fetchFrame, http_outcome, content_type, body_size, decodes,
                 image_size>>

\* lines 216-220: resize if too large
FetchResize ==
  /\ pc = "fetch_resize"
  /\ image_size' \in Resized(image_size)
  /\ pc' = "fetch_check"
  /\ UNCHANGED <<fetchFrame, http_outcome, content_type, body_size, decodes,
                 fetched>>

\* lines 222-226: the minimum dimension, then return image
FetchCheckSize ==
  /\ pc = "fetch_check"
  /\ fetched' = IF BelowMinimumDimension(image_size) THEN "none" ELSE "image"
  /\ pc' = "fetch_returned"
  /\ UNCHANGED <<fetchFrame, http_outcome, content_type, body_size, decodes,
                 image_size>>

NextFetch ==
  \/ FetchRequest
  \/ FetchCheckType
  \/ FetchRead
  \/ FetchDecode
  \/ FetchResize
  \/ FetchCheckSize

SpecFetch == FetchInit /\ [][NextFetch]_vars

(***************************************************************************)
(* search_google_images (src/aa.py 80-159) as a function of what the        *)
(* image-search collaborator answers: a fifth specification.                *)
(***************************************************************************)
\* the extensions of line 146
ImageExtensions ==
  { <<".", "j", "p", "g">>,
    <<".", "j", "p", "e", "g">>,
    <<".", "p", "n", "g">> }

\* item.get('title', 'Related Image')[:100], line 149
ResultTitleLimit == 100

\* line 146: the link is not empty and holds one of the extensions
KeepsLink(link) ==
  link # <<>> /\ \E ext \in ImageExtensions : contains(lower(link), ext)

\* lines 143-152: the results built from data['items']
ImageUrls(items) ==
  LET keeps(item) == KeepsLink(item.link)
      kept == SelectSeq(items, keeps)
  IN  [k \in 1..Len(kept) |->
         [url |-> kept[k].link,
          title |-> SubSeq(kept[k].title, 1,
                           IF Len(kept[k].title) > ResultTitleLimit
                           THEN ResultTitleLimit ELSE Len(kept[k].title))]]

\* lines 115-121: the warning shown for a 400 response, if any.  The body is
\* put in lower case, the texts looked for are those of the source.
Warning400(error_detail) ==
  IF contains(lower(error_detail), <<"i", "n", "v", "a", "l", "i", "d", " ", "A", "P", "I", " ", "k", "e", "y">>)
  THEN <<"invalid_api_key">>
  ELSE IF contains(lower(error_detail), <<"c", "u", "s", "t", "o", "m", " ", "s", "e", "a", "r", "c", "h", " ", "e", "n", "g", "i", "n", "e">>)
  THEN <<"invalid_engine_id">>
  ELSE IF \/ contains(lower(error_detail), <<"q", "u", "o", "t", "a">>)
          \/ contains(lower(error_detail), <<"l", "i", "m", "i", "t">>)
  THEN <<"quota">>
  ELSE <<>>

\* line 128 retrying on every status from 429 upwards
IsBusyOrServerError(status) == status >= 429

\* line 128: elif response.status_code == 429
IsRateLimited(status) == status = 429

\* raise_for_status, lines 134 and 138
RaisesForStatus(status) == status >= 400

\* the items of a 200 response: none, a JPG and a GIF link, and more
\* usable links than were asked for
SearchItems ==
  { <<>>,
    << [link |-> <<"h", "t", "t", "p", ":", "/", "/", "x", "/", "a", ".", "J", "P", "G">>, title |-> <<"a">>],
       [link |-> <<"h", "t", "t", "p", ":", "/", "/", "x", "/", "b", ".", "g", "i", "f">>, title |-> <<"b">>] >>,
    << [link |-> <<"h", "t", "t", "p", ":", "/", "/", "x", "/", "c", ".", "p", "n", "g">>, title |-> <<"c">>],
       [link |-> <<>>, title |-> <<"b">>],
       [link |-> <<"h", "t", "t", "p", ":", "/", "/", "x", "/", "d", ".", "j", "p", "e", "g">>, title |-> Padding(ResultTitleLimit + 1)] >> }

\* bodies of 400 responses: two wordings of an invalid key, an unknown
\* search engine, two wordings of an exhausted quota, and another error
ErrorBodies ==
  { <<"I", "n", "v", "a", "l", "i", "d", " ", "A", "P", "I", " ", "k", "e", "y">>,
    <<"A", "P", "I", " ", "k", "e", "y", " ", "n", "o", "t", " ", "v", "a", "l", "i", "d">>,
    <<"C", "u", "s", "t", "o", "m", " ", "S", "e", "a", "r", "c", "h", " ", "E", "n", "g", "i", "n", "e", " ", "n", "o", "t", " ", "f", "o", "u", "n", "d">>,
    <<"Q", "u", "o", "t", "a", " ", "e", "x", "c", "e", "e", "d", "e", "d">>,
    <<"D", "a", "i", "l", "y", " ", "L", "i", "m", "i", "t", " ", "r", "e", "a", "c", "h", "e", "d">>,
    <<"B", "a", "d", " ", "R", "e", "q", "u", "e", "s", "t">> }

NoBody == <<>>

\* what a request can meet: an exception of requests.get, or a response
SearchResponses ==
  {[raises |-> e, status |-> 0, body |-> NoBody, items |-> <<>>, json_ok |-> FALSE] :
     e \in {"Timeout", "ConnectionError"}}
  \cup {[raises |-> "none", status |-> 200, body |-> NoBody, items |-> its, json_ok |-> TRUE] :
          its \in SearchItems}
  \cup {[raises |-> "none", status |-> 200, body |-> NoBody, items |-> <<>>, json_ok |-> FALSE]}
  \cup {[raises |-> "none", status |-> 400, body |-> b, items |-> <<>>, json_ok |-> TRUE] :
          b \in ErrorBodies}
  \cup {[raises |-> "none", status |-> st, body |-> NoBody, items |-> <<>>, json_ok |-> TRUE] :
          st \in {403, 429, 500}}

\* the query argument: empty, blank, and three queries
SearchQueries ==
  { <<>>, <<" ", " ">>, <<" ", "A", "I", " ", "l", "a", "b", ":", " ", "B", "!", " ">>,
    <<"A", "I", " ", "l", "a", "b", " ", "A">>, <<"A", " ", "r", "e", "s", "e", "a", "r", "c", "h", " ", "m", "e", "t", "h", "o", "d", "o", "l", "o", "g", "y">> }

\* the variables search_google_images does not touch
searchFrame ==
  <<title, toc_items, genText, asmVars, sections, image_search_count, images,
    variant, successful_downloads, downloadBudget, searchCalls, downloadCalls,
    groqVars, docVars, faultVars, fmtVars, fault_at, fetchVars, embedVars>>

SearchInit ==
  /\ search_query \in SearchQueries
  /\ google_api_key \in BOOLEAN
  /\ cse_id \in BOOLEAN
  /\ responses = <<>>
  /\ warnings = <<>>
  /\ backoffs = 0
  /\ searchRequests = 0
  /\ image_results = <<>>
  /\ pc = "search_validate"
  /\ IdleRest /\ IdleFetch /\ IdleEmbed

\* lines 84-88: the early returns
SearchValidate ==
  /\ pc = "search_validate"
  /\ IF SendsRequest(google_api_key, cse_id, search_query)
     THEN pc' = "search_request"
     ELSE pc' = "search_returned"
  /\ UNCHANGED <<searchFrame, search_query, google_api_key, cse_id, responses,
                 warnings, backoffs, searchRequests, image_results>>

\* lines 138-159 for a response no status branch has dealt with: the pair
\* <<results, warnings>> the call ends with
Answer(r) ==
  IF r.raises = "Timeout" THEN << <<>>, <<"timed_out">> >>
  ELSE IF r.raises # "none" \/ RaisesForStatus(r.status) \/ ~r.json_ok
       THEN << <<>>, <<"failed">> >>
       ELSE << ImageUrls(r.items), <<>> >>

\* lines 110-129 and 138-159: the request and the branches on its status
SearchRequest ==
  /\ pc = "search_request"
  /\ \E r \in SearchResponses :
       /\ searchRequests' = searchRequests + 1
       /\ responses' = Append(responses, r)
       /\ IF r.raises = "none" /\ r.status = 400
          THEN /\ warnings' = warnings \o Warning400(r.body)
               /\ image_results' = <<>>
               /\ pc' = "search_returned"
               /\ UNCHANGED backoffs
          ELSE IF r.raises = "none" /\ r.status = 403
          THEN /\ warnings' = Append(warnings, "access_denied")
               /\ image_results' = <<>>
               /\ pc' = "search_returned"
               /\ UNCHANGED backoffs
          ELSE IF r.raises = "none" /\ IsRateLimited(r.status)
          THEN /\ warnings' = Append(warnings, "too_many_requests")
               /\ backoffs' = backoffs + 1
               /\ pc' = "search_retry"
               /\ UNCHANGED image_results
          ELSE /\ image_results' = Answer(r)[1]
               /\ warnings' = warnings \o Answer(r)[2]
               /\ pc' = "search_returned"
               /\ UNCHANGED backoffs
  /\ UNCHANGED <<searchFrame, search_query, google_api_key, cse_id>>

\* lines 131-152: after the wait, the second request; the bare except of
\* line 135 returns the empty list without a warning
SearchRetry ==
  /\ pc = "search_retry"
  /\ \E r \in SearchResponses :
       /\ searchRequests' = searchRequests + 1
       /\ responses' = Append(responses, r)
       /\ IF r.raises # "none" \/ RaisesForStatus(r.status)
          THEN /\ image_results' = <<>>
               /\ UNCHANGED warnings
          ELSE /\ image_results' = Answer(r)[1]
               /\ warnings' = warnings \o Answer(r)[2]
  /\ pc' = "search_returned"
  /\ UNCHANGED <<searchFrame, search_query, google_api_key, cse_id, backoffs>>

NextSearch ==
  \/ SearchValidate
  \/ SearchRequest
  \/ SearchRetry

SpecSearch == SearchInit /\ [][NextSearch]_vars

(***************************************************************************)
(* add_image_to_document_safe (src/aa.py 232-296) as a function of its      *)
(* arguments: a fourth specification, in which saving, embedding and        *)
(* deleting may each fail.                                                  *)
(***************************************************************************)
\* range(3) of line 286
UnlinkAttempts == 3

\* len(caption_text) > 100, line 275
EmbedCaptionLimit == 100

\* lines 274-277: the text of the caption paragraph
FigureText(caption) ==
  LET caption_text == strip(caption)
  IN  <<"F", "i", "g", "u", "r", "e", ":", " ">> \o
      (IF Len(caption_text) > EmbedCaptionLimit
       THEN SubSeq(caption_text, 1, EmbedCaptionLimit - 3) \o <<".", ".", ".">>
       ELSE caption_text)

\* the image argument: None, an RGB image, an image of another mode
EmbedImages == {"none", "RGB", "RGBA"}

\* the caption argument: empty, blank, short, and longer than the limit
EmbedCaptions ==
  { <<>>, <<" ", " ">>, <<"F", "i", "g", " ", "1">>, Padding(EmbedCaptionLimit + 1) }

\* the variables add_image_to_document_safe does not touch
embedFrame ==
  <<inputVars, asmVars, sections, imageVars, groqVars, header, layout_keys,
    section_counter, laid, built, stageFailures, faultVars, fmtVars, fault_at,
    fetchVars, searchVars>>

EmbedInit ==
  /\ image_in \in EmbedImages
  /\ caption_in \in EmbedCaptions
  /\ temp_file = "not_created"
  /\ unlink_attempts = 0
  /\ embed_result = "pending"
  /\ doc = <<>>
  /\ pc = "embed_start"
  /\ IdleRest /\ IdleSearch /\ IdleFetch

\* lines 235-247: no image returns False; the conversion of an image of
\* another mode may raise, which the handler of line 295 turns into False;
\* no file exists yet
EmbedStart ==
  /\ pc = "embed_start"
  /\ \/ /\ image_in = "none"
        /\ embed_result' = FALSE
        /\ pc' = "embed_returned"
     \/ /\ image_in # "none"
        /\ pc' = "embed_save"
        /\ UNCHANGED embed_result
     \/ /\ image_in \notin {"none", "RGB"}
        /\ embed_result' = FALSE
        /\ pc' = "embed_returned"
  /\ UNCHANGED <<embedFrame, doc, image_in, caption_in, temp_file, unlink_attempts>>

\* lines 251-254: image.save writes the file; it may raise before or after
\* the file exists, and line 253 returns False for a missing or empty file.
\* Every way out of the try block goes through the finally clause.
EmbedSave ==
  /\ pc = "embed_save"
  /\ \/ /\ temp_file' = "exists"
        /\ pc' = "embed_picture"
        /\ UNCHANGED embed_result
     \/ /\ temp_file' \in {"not_created", "exists"}
        /\ embed_result' = FALSE
        /\ pc' = "embed_cleanup"
  /\ UNCHANGED <<embedFrame, doc, image_in, caption_in, unlink_attempts>>

\* lines 257-268: the paragraph and the picture in it
EmbedPicture ==
  /\ pc = "embed_picture"
  /\ \/ /\ doc' = Append(doc, [kind |-> "picture", image |-> image_in])
        /\ pc' = "embed_caption"
        /\ UNCHANGED embed_result
     \/ /\ doc' \in {doc, Append(doc, [kind |-> "blank"])}
        /\ embed_result' = FALSE
        /\ pc' = "embed_cleanup"
  /\ UNCHANGED <<embedFrame, image_in, caption_in, temp_file, unlink_attempts>>

\* lines 270-282: the caption paragraph if the caption is not blank, then
\* return True
EmbedCaption ==
  /\ pc = "embed_caption"
  /\ IF caption_in # <<>> /\ strip(caption_in) # <<>>
     THEN \/ /\ doc' = Append(doc, [kind |-> "caption", text |-> FigureText(caption_in)])
             /\ embed_result' = TRUE
          \/ /\ doc' \in {doc, Append(doc, [kind |-> "blank"])}
             /\ embed_result' = FALSE
     ELSE /\ embed_result' = TRUE
          /\ UNCHANGED doc
  /\ pc' = "embed_cleanup"
  /\ UNCHANGED <<embedFrame, image_in, caption_in, temp_file, unlink_attempts>>

\* line 286: for attempt in range(3)
CleanupGoesOn(n) == n < UnlinkAttempts

\* lines 284-293: one iteration of the clean-up loop, or its end; the
\* function then returns the value decided before
EmbedCleanup ==
  /\ pc = "embed_cleanup"
  /\ IF ~CleanupGoesOn(unlink_attempts)
     THEN /\ pc' = "embed_returned"
          /\ UNCHANGED <<temp_file, unlink_attempts>>
     ELSE IF temp_file # "exists"
          THEN /\ pc' = "embed_returned"
               /\ UNCHANGED <<temp_file, unlink_attempts>>
          ELSE \/ /\ temp_file' = "deleted"
                  /\ pc' = "embed_returned"
                  /\ UNCHANGED unlink_attempts
               \/ /\ unlink_attempts' = unlink_attempts + 1
                  /\ UNCHANGED <<temp_file, pc>>
  /\ UNCHANGED <<embedFrame, doc, image_in, caption_in, embed_result>>

NextEmbed ==
  \/ EmbedStart
  \/ EmbedSave
  \/ EmbedPicture
  \/ EmbedCaption
  \/ EmbedCleanup

SpecEmbed == EmbedInit /\ [][NextEmbed]_vars

(***************************************************************************)
(* Properties.                                                              *)
(***************************************************************************)
IsHeading(paragraph) == paragraph.kind = "heading"

\* the section headings of the document, in document order
Headings == SelectSeq(doc, IsHeading)

\* generate_project_sections has returned its mapping
SectionsReturned ==
  \/ pc \in {"returned", "cover", "abstract", "abstract_text", "toc", "sections",
             "layout", "minimal", "final", "done", "build_raised"}
  \/ pc = "generate" /\ caller = "abstract"

\* the lines of a text that hold a character other than whitespace
NonBlankLineCount(text) ==
  LET lines == split(text, <<"\n">>)
  IN  Cardinality({k \in 1..Len(lines) :
                     \E j \in 1..Len(lines[k]) : lines[k][j] \notin Whitespace})

SixDefaultKeys ==
  << <<"introduction">>, <<"literature_review">>, <<"methodology">>,
     <<"results">>, <<"conclusion">>, <<"references">> >>

\* C1: every section heading written to the document carries the number k of
\* the outline entry it belongs to: the heading numbered k is the one of the
\* k-th entry processed by generate_project_sections, for custom outlines of
\* any length and for the default outline.
C1_HeadingsInOutlineOrder ==
  \A p \in 1..Len(doc) :
    IsHeading(doc[p]) =>
      LET k == doc[p].number
      IN  /\ k \in 1..Len(Outline(parsed_toc))
          /\ doc[p].key = Outline(parsed_toc)[k].key
          /\ IsCustom(parsed_toc) => doc[p].text = parsed_toc[k]

\* C2: once generate_project_sections has returned, the mapping holds one
\* record per outline entry: one per non-blank line of the outline text, or
\* exactly the six default records when the outline text is empty or blank.
C2_OneRecordPerEntry ==
  SectionsReturned =>
    /\ Cardinality(DOMAIN sections) = Len(Outline(parsed_toc))
    /\ IF NonBlankLineCount(toc_items) = 0
       THEN DOMAIN sections = {SixDefaultKeys[k] : k \in 1..6}
       ELSE /\ Cardinality(DOMAIN sections) = NonBlankLineCount(toc_items)
            /\ DOMAIN sections =
                 {SectionKey(k) : k \in 1..NonBlankLineCount(toc_items)}

\* a custom outline whose text has a blank line and numbered lines has
\* produced its three records
C2_Witness ==
  /\ pc = "returned"
  /\ NonBlankLineCount(toc_items) = 3
  /\ Len(split(toc_items, <<"\n">>)) > 3
  /\ Cardinality(DOMAIN sections) = 3

\* the event logs of a complete call of generate_content_with_groq: a
\* success ends the call, a sleep follows every failure but the third
CompleteGroqLogs ==
  { <<"ok">>,
    <<"fail", "sleep", "ok">>,
    <<"fail", "sleep", "fail", "sleep", "ok">>,
    <<"fail", "sleep", "fail", "sleep", "fail">> }

\* the logs of a call that goes on
OpenGroqLogs ==
  { <<>>, <<"fail", "sleep">>, <<"fail", "sleep", "fail", "sleep">> }

IsCall(event) == event \in {"ok", "fail"}

SentinelPrefix == <<"E", "r", "r", "o", "r", " ", "g", "e", "n", "e", "r", "a", "t", "i", "n", "g", " ", "c", "o", "n", "t", "e", "n", "t", ":">>

\* C3: a call of generate_content_with_groq asks the collaborator at most 3
\* times, returns the text of the first success without a further call, sleeps
\* only between a failure and the next attempt, and after 3 failures returns a
\* string that begins with 'Error generating content:'.
C3_BoundedRetry ==
  /\ Len(SelectSeq(groqLog, IsCall)) <= 3
  /\ pc = "generate" => groqLog \in OpenGroqLogs
  /\ pc \in {"format", "abstract_text"} =>
       /\ groqLog \in CompleteGroqLogs
       /\ groqLog[Len(groqLog)] = "ok" => content = genText
       /\ groqLog[Len(groqLog)] = "fail" =>
            /\ content # None
            /\ startswith(content, SentinelPrefix)

\* a call has returned after three failures
C3_Witness ==
  /\ pc = "format"
  /\ groqLog = <<"fail", "sleep", "fail", "sleep", "fail">>
  /\ startswith(content, SentinelPrefix)

\* C4: a section whose text generation failed on every attempt gets a record
\* whose body is the sentinel text: it is not empty and begins with
\* 'Error generating content:'.
C4_FailedSectionKeepsSentinel ==
  \A key \in failed \cap DOMAIN sections :
    /\ sections[key].content # <<>>
    /\ startswith(sections[key].content, SentinelPrefix)

\* C5: no exception escapes generate_project_sections.
C5_SectionsNeverRaise == pc # "raised"

\* C6: no exception escapes create_word_document_safe.
C6_BuilderNeverRaises == pc # "build_raised"

\* C7: format_content_with_lists is idempotent.
C7_FormatIdempotent ==
  pc = "format_twice" => text_twice = text_once

\* the function has been applied twice to a line that carries two markers
C7_Witness ==
  /\ pc = "format_twice"
  /\ text_in = <<"1", ".", " ", "2", ".", " ", "x">>
  /\ text_once # text_in

\* C8: the search counter never exceeds 12 and search_google_images is
\* called at most 12 times in a run.
C8_SearchQuota ==
  /\ image_search_count <= 12
  /\ searchCalls <= 12

\* the quota is used up and stops the second query of a section
C8_Witness ==
  /\ pc = "emit"
  /\ IsCustom(parsed_toc)
  /\ variant = 2
  /\ searchCalls = 12
  /\ image_search_count = 12
  /\ image_results = <<>>
  /\ Len(images) = 0
  /\ successful_downloads = 0
  /\ searchRequests = 12
  /\ downloadBudget = 0
  /\ i < Len(parsed_toc)

\* C9: no section holds more than 2 images, in the record and while the
\* images are collected.
C9_AtMostTwoImages ==
  /\ Len(images) <= 2
  /\ \A key \in DOMAIN sections : Len(sections[key].images) <= 2

\* two downloads succeeded and a third result is left untried
C9_Witness ==
  /\ pc = "download"
  /\ successful_downloads = 2
  /\ Len(images) = 2
  /\ image_results # <<>>

\* C10: without the API key or without the search-engine id a run sends no
\* search request, calls neither search nor download, and attaches no image;
\* with the default outline, a build in which no library call failed then has
\* exactly the six default section headings, in order.
C10_NoCredentialsNoImages ==
  (~google_api_key \/ ~cse_id) =>
    /\ searchCalls = 0 /\ searchRequests = 0 /\ downloadCalls = 0
    /\ images = <<>>
    /\ \A key \in DOMAIN sections : sections[key].images = <<>>
    /\ \A p \in 1..Len(doc) : doc[p].kind \notin {"picture", "caption"}
    /\ (pc = "done" /\ built = "main" /\ ~IsCustom(parsed_toc)
        /\ stageFailures = 0) =>
         /\ Len(Headings) = 6
         /\ \A k \in 1..6 : /\ Headings[k].number = k
                            /\ Headings[k].key = SixDefaultKeys[k]

\* a default run with the API key but no search-engine id has built its
\* document
C10_Witness ==
  /\ google_api_key /\ ~cse_id
  /\ pc = "done" /\ built = "main"
  /\ ~IsCustom(parsed_toc)
  /\ stageFailures = 0
  /\ Len(Headings) = 6

\* C11: every image download_image_safe returns has its smaller dimension at
\* least 100 pixels and its larger dimension at most 800 pixels, whatever the
\* decoded size was.
C11_ReturnedImageWithinLimits ==
  fetched = "image" =>
    /\ Smaller(image_size) >= 100
    /\ Larger(image_size) <= 800

\* an image has been scaled down to a size no server sent, its smaller side
\* exactly at the minimum, and returned
C11_Witness ==
  /\ pc = "fetch_returned"
  /\ fetched = "image"
  /\ image_size = <<799, 100>>

\* the media type a content-type header declares: the part before the first
\* ';', without surrounding blanks, in lower case
DeclaredMediaType(ct) == strip(lower(split(ct, <<";">>)[1]))

C12_StagingFileDeleted ==
  pc = "embed_returned" => temp_file # "exists"

\* C13: the document builder leaves every section record unchanged: from the
\* moment generate_project_sections has returned its mapping, no step of the
\* build changes a key or a value of a record, for custom and default
\* outlines.
C13_BuilderLeavesRecordsUnchanged ==
  [][(SectionsReturned /\ SectionsReturned') => sections' = sections]_vars

\* the first response of the current call was received with this status
FirstStatusIs(status) ==
  /\ responses # <<>>
  /\ responses[1].raises = "none"
  /\ responses[1].status = status

\* the body of the first response holds the words, in any case of letters
FirstBodyMentions(words) ==
  responses # <<>> /\ contains(lower(responses[1].body), lower(words))

Shown(warning) == \E k \in 1..Len(warnings) : warnings[k] = warning

\* C14: search_google_images, when it has returned after an error response
\* other than a rate limit, has returned the empty list and shown the
\* warning of the error's class: invalid API key, invalid search-engine id
\* and quota for a 400 response whose body reports them, access denied for a
\* 403 response.
C14_WarningPerErrorClass ==
  pc = "search_returned" =>
    /\ (FirstStatusIs(400) \/ FirstStatusIs(403)) => image_results = <<>>
    /\ (FirstStatusIs(400) /\ FirstBodyMentions(<<"i", "n", "v", "a", "l", "i", "d", " ", "A", "P", "I", " ", "k", "e", "y">>))
         => Shown("invalid_api_key")
    /\ (FirstStatusIs(400) /\ FirstBodyMentions(<<"c", "u", "s", "t", "o", "m", " ", "s", "e", "a", "r", "c", "h", " ", "e", "n", "g", "i", "n", "e">>))
         => Shown("invalid_engine_id")
    /\ (FirstStatusIs(400)
        /\ (FirstBodyMentions(<<"q", "u", "o", "t", "a">>) \/ FirstBodyMentions(<<"l", "i", "m", "i", "t">>)))
         => Shown("quota")
    /\ FirstStatusIs(403) => Shown("access_denied")

\* the second response of the current call failed: an exception or an error
\* status
RetryFailed ==
  /\ Len(responses) = 2
  /\ (responses[2].raises # "none" \/ responses[2].status >= 400)

\* C15: a call of search_google_images sends at most two requests; it sends
\* the second one, after one wait, exactly when the first response is a 429,
\* and exactly one request when the first response is anything else; when the
\* second request fails the call returns the empty list.
C15_OneRetryOnRateLimit ==
  /\ searchRequests <= 2
  /\ backoffs <= 1
  /\ pc = "search_retry" =>
       /\ FirstStatusIs(429) /\ searchRequests = 1 /\ backoffs = 1
  /\ pc = "search_returned" =>
       /\ (responses # <<>> /\ ~FirstStatusIs(429)) =>
            /\ searchRequests = 1 /\ backoffs = 0
       /\ FirstStatusIs(429) => searchRequests = 2 /\ backoffs = 1
       /\ RetryFailed => image_results = <<>>

\* a rate-limited call has returned the results of its second request
C15_Witness ==
  /\ pc = "search_returned"
  /\ FirstStatusIs(429)
  /\ searchRequests = 2
  /\ responses[2].status = 200
  /\ image_results # <<>>

\* C17: in the custom-outline path a section searches at most two query
\* variants; every search call is made while the search counter is below its
\* cap and while no variant of the section has yielded a fetched image, so the
\* second variant is searched only after the first yielded none, and no
\* search follows a variant that yielded one.
C17_NextQueryOnlyAfterNoFetch ==
  [][(IsCustom(parsed_toc) /\ searchCalls' = searchCalls + 1) =>
       /\ variant \in 1..2 /\ variant' = variant
       /\ images = <<>>
       /\ image_search_count < 12
       /\ i' = i]_vars

\* the second query of a custom section has been searched after the first
\* yielded no image, and has yielded one
C17_Witness ==
  /\ IsCustom(parsed_toc)
  /\ pc = "download"
  /\ variant = 2
  /\ successful_downloads = 1
  /\ Len(images) = 1
  /\ searchCalls >= 2

\* C18: the record of a references section (the default outline's references
\* entry, or a custom outline entry titled 'References') holds the generated
\* text as it was returned, not passed through format_content_with_lists.
C18_ReferencesBodyUnformatted ==
  \A key \in DOMAIN sections \ failed :
    lower(sections[key].title) = References =>
      sections[key].content = genText

\* the positions of the paragraphs of the section whose heading is at p: up
\* to the next heading or the end of the document
SectionBody(p) ==
  {q \in (p + 1)..Len(doc) :
     \A r \in (p + 1)..q : ~IsHeading(doc[r])}

\* C19: the body of a references section of the document (default outline, or
\* a custom entry titled 'References') consists of hanging-indent lines, one
\* per non-blank line of the section's text, with no justified paragraph and
\* no bullet.
C19_ReferencesAsHangingLines ==
  \A p \in 1..Len(doc) :
    (IsHeading(doc[p]) /\ lower(doc[p].text) = References) =>
      LET body == {q \in SectionBody(p) :
                     doc[q].kind \in {"hanging", "justified", "bullet"}}
      IN  /\ \A q \in body : doc[q].kind = "hanging"
          /\ stageFailures = 0 =>
               Cardinality(body) = NonBlankLineCount(sections[doc[p].key].content)

IsPageBreak(paragraph) == paragraph.kind = "page_break"

\* the paragraphs before the first page break of a sequence
UpToBreak(paragraphs) ==
  IF \E q \in 1..Len(paragraphs) : IsPageBreak(paragraphs[q])
  THEN SubSeq(paragraphs, 1,
              (CHOOSE q \in 1..Len(paragraphs) :
                 /\ IsPageBreak(paragraphs[q])
                 /\ \A r \in 1..(q - 1) : ~IsPageBreak(paragraphs[r])) - 1)
  ELSE paragraphs

\* the paragraphs after the first page break of a sequence
AfterBreak(paragraphs) ==
  SubSeq(paragraphs, Len(UpToBreak(paragraphs)) + 2, Len(paragraphs))

IsPrefix(a, b) == Len(a) <= Len(b) /\ SubSeq(b, 1, Len(a)) = a

\* C20: a failure inside one of the fixed layout stages (margins and style
\* setup, header and footer, cover page, abstract, table-of-contents
\* placeholder, a content section) does not end the layout: the build returns
\* the same document, in which the cover page, the abstract, the
\* table-of-contents placeholder and the sections follow one another in
\* order, each separated by its page break, each stage holding what it had
\* laid out before its failure, and every section handed to the layout.
C20_StageFailureContinues ==
  /\ fault_at = "margins" => pc \notin {"minimal", "final", "build_raised"}
  /\ (pc = "done" /\ fault_at \in {"none", "margins"}) =>
       LET cover == UpToBreak(doc)
           abstract == UpToBreak(AfterBreak(doc))
           toc == UpToBreak(AfterBreak(AfterBreak(doc)))
           body == AfterBreak(AfterBreak(AfterBreak(doc)))
           short == Cardinality(
                      {n \in 1..4 :
                         \/ n = 1 /\ ~header
                         \/ n = 2 /\ cover # CoverParagraphs
                         \/ n = 3 /\ Len(abstract) # 2
                         \/ n = 4 /\ toc # TocParagraphs})
       IN  /\ built = "main"
           /\ Len(SelectSeq(doc, IsPageBreak)) = 3
           /\ IsPrefix(cover, CoverParagraphs)
           /\ IsPrefix([k \in 1..Len(abstract) |-> abstract[k].kind],
                       <<"abstract_heading", "abstract">>)
           /\ IsPrefix(toc, TocParagraphs)
           /\ \A q \in 1..Len(body) :
                body[q].kind \notin {"cover_title", "abstract", "toc_heading"}
           /\ laid = LayoutOrder(sections)
           /\ short + (Len(laid) - Len(Headings)) <= stageFailures

\* the lines of a text; the empty text has none
LinesOf(text) == IF text = <<>> THEN <<>> ELSE split(text, <<"\n">>)

\* the non-blank lines of the text given to format_content_with_lists,
\* trimmed, in order
TrimmedLines ==
  LET lines == split(text_in, <<"\n">>)
      trimmed == [k \in 1..Len(lines) |-> strip(lines[k])]
  IN  SelectSeq(trimmed, LAMBDA line : line # <<>>)

StartsWithBulletMarker(line) == line # <<>> /\ line[1] \in {Bullet, "-", "*"}

\* one or more digits followed by '.'
StartsWithNumberMarker(line) ==
  \E k \in 1..(Len(line) - 1) :
    /\ \A j \in 1..k : line[j] \in Digits
    /\ line[k + 1] = "."

HoldsKeyword(line) ==
  \E word \in {<<"s", "t", "e", "p", " ">>, <<"o", "b", "j", "e", "c", "t", "i", "v", "e", " ">>, <<"m", "e", "t", "h", "o", "d", " ">>, <<"a", "p", "p", "r", "o", "a", "c", "h", " ">>} :
    \E k \in 1..Len(line) :
      /\ k + Len(word) - 1 <= Len(line)
      /\ lower(SubSeq(line, k, k + Len(word) - 1)) = word

\* the condition under which a trimmed line is to become a bullet
BecomesBullet(line) ==
  \/ StartsWithBulletMarker(line)
  \/ StartsWithNumberMarker(line)
  \/ (Len(line) < 100 /\ HoldsKeyword(line))

\* the function has been applied to text_in
Formatted == pc \in {"format_once", "format_twice"}

\* C21: format_content_with_lists turns a non-blank line into a bullet if and
\* only if the trimmed line starts with a bullet marker or a number marker,
\* whatever its length, or is shorter than 100 characters and holds one of
\* the keywords 'step ', 'objective ', 'method ', 'approach ' in any case of
\* letters.
C21_BulletIffMarkerOrShortKeyword ==
  Formatted =>
    /\ Len(LinesOf(text_once)) = Len(TrimmedLines)
    /\ \A k \in 1..Len(TrimmedLines) :
         (LinesOf(text_once)[k][1] = Bullet) <=> BecomesBullet(TrimmedLines[k])

\* a marker line as long as the limit has become a bullet, and so has a
\* keyword line in capitals
C21_Witness ==
  /\ Formatted
  /\ \/ text_in = <<"7", ".">> \o Padding(LineLimit - 2)
     \/ text_in = <<"-", " ">> \o Padding(LineLimit - 2)
  /\ text_once[1] = Bullet
  /\ Len(text_in) >= 100

RECURSIVE WithoutLeadingMarkers(_)
\* a trimmed line without its leading bullet and number markers
WithoutLeadingMarkers(line) ==
  LET rest == lstrip(line, Whitespace)
  IN  IF StartsWithBulletMarker(rest) THEN WithoutLeadingMarkers(Tail(rest))
      ELSE IF StartsWithNumberMarker(rest)
           THEN WithoutLeadingMarkers(Tail(lstrip(rest, Digits)))
           ELSE rest

\* C22: every line that format_content_with_lists turns into a bullet is
\* output as the bullet marker and a space followed by the text of the line:
\* the text keeps no leading bullet or number marker and is the whole line
\* without its leading marker, nothing else being lost.
C22_BulletKeepsTextDropsMarker ==
  Formatted =>
    \A k \in 1..Len(TrimmedLines) :
      (k <= Len(LinesOf(text_once)) /\ BecomesBullet(TrimmedLines[k])) =>
        LET out == LinesOf(text_once)[k]
            rest == SubSeq(out, 3, Len(out))
        IN  /\ startswith(out, <<Bullet, " ">>)
            /\ ~StartsWithBulletMarker(rest)
            /\ ~StartsWithNumberMarker(rest)
            /\ rest = strip(WithoutLeadingMarkers(TrimmedLines[k]))

\* C23: every line that format_content_with_lists does not turn into a bullet
\* appears in the output exactly as in the input and at the same position:
\* blank lines are kept, and so is leading and trailing whitespace.
C23_OtherLinesUnchanged ==
  Formatted =>
    LET lines == split(text_in, <<"\n">>)
        out == split(text_once, <<"\n">>)
    IN  /\ Len(out) = Len(lines)
        /\ \A k \in 1..Len(lines) :
             ~BecomesBullet(strip(lines[k])) => out[k] = lines[k]

\* the lines of a text that start with the canonical bullet marker
BulletLines(text) ==
  SelectSeq(LinesOf(text), LAMBDA line : line # <<>> /\ line[1] = Bullet)

\* C24: in the document, the body of a section that is not a references
\* section shows every bullet line of the section's formatted text as a
\* bullet paragraph of its own: no justified paragraph holds a bullet line, a
\* bullet paragraph holds one line only, and there are as many bullet
\* paragraphs as bullet lines.
C24_BulletLineOwnParagraph ==
  \A p \in 1..Len(doc) :
    ( /\ IsHeading(doc[p])
      /\ ~IsReferencesArg(IsCustom(parsed_toc), doc[p].key)
      /\ lower(sections[doc[p].key].title) # References ) =>
      LET body == {q \in SectionBody(p) : doc[q].kind \in {"justified", "bullet"}}
          bullets == {q \in body : doc[q].kind = "bullet"}
      IN  /\ \A q \in body \ bullets : BulletLines(doc[q].text) = <<>>
          /\ \A q \in bullets : Len(LinesOf(doc[q].text)) <= 1
          /\ stageFailures = 0 =>
               Cardinality(bullets) = Len(BulletLines(sections[doc[p].key].content))

(***************************************************************************)
(* The full run of lines 1110-1125 (generate_project_sections followed by   *)
(* create_word_document_safe) with a text-generation collaborator that may  *)
(* fail at every request.  The program is one sequential thread and every   *)
(* collaborator call returns or raises, so a step that can be taken is      *)
(* taken: weak fairness of Next.                                            *)
(***************************************************************************)
\* failing text-generation requests per run, enough for every request of a
\* run over a three-entry outline to fail
MaxRunFailures == 12

\* the custom outlines of at most three entries
RetryTocs ==
  {toc \in ShortTocs :
     IsCustom(parse_toc_items(toc)) /\ Len(parse_toc_items(toc)) <= 3}

\* the text the text-generation collaborator returns in these runs: one list
\* line
RetryText == <<"-", " ", "a">>

\* every text-generation request may fail over a custom outline, some of
\* them over the default outline
RetryRun ==
  /\ title = PlainTitle /\ genText = RetryText
  /\ \/ toc_items \in RetryTocs /\ groqBudget = MaxRunFailures
     \/ toc_items = <<>> /\ groqBudget = MaxGroqFailures
  /\ google_api_key = FALSE /\ cse_id = FALSE
  /\ downloadBudget = 0 /\ stageBudget = 0 /\ fatalFaults = FALSE

\* the other collaborators' trouble, over custom outlines: a download may
\* succeed, or the document library may fail inside or outside the stage
\* guards
OtherTrouble ==
  /\ title = PlainTitle /\ toc_items \in RetryTocs /\ genText = RetryText
  /\ IsCustom(parse_toc_items(toc_items))
  /\ groqBudget = 0
  /\ \/ /\ google_api_key = TRUE /\ cse_id = TRUE
        /\ downloadBudget = 1 /\ stageBudget = 0 /\ fatalFaults = FALSE
     \/ /\ google_api_key = FALSE /\ cse_id = FALSE
        /\ downloadBudget = 0 /\ stageBudget = MaxStageFailures /\ fatalFaults = FALSE
     \/ /\ google_api_key = FALSE /\ cse_id = FALSE
        /\ downloadBudget = 0 /\ stageBudget = 0 /\ fatalFaults = TRUE

RetryInit ==
  /\ \/ RetryRun
     \/ OtherTrouble
  /\ pc = "start"
  /\ parsed_toc = NoList
  /\ i = 0
  /\ sections = <<>>
  /\ image_search_count = 0
  /\ content = None
  /\ images = <<>>
  /\ variant = 0
  /\ image_results = <<>>
  /\ successful_downloads = 0
  /\ attempt = 0
  /\ caller = "nobody"
  /\ groqLog = <<>>
  /\ groqRequests = 0
  /\ searchCalls = 0
  /\ searchRequests = 0
  /\ downloadCalls = 0
  /\ failed = {}
  /\ stageFailures = 0
  /\ text_in = None
  /\ text_once = None
  /\ text_twice = None
  /\ doc = <<>>
  /\ header = FALSE
  /\ layout_keys = <<>>
  /\ section_counter = 0
  /\ laid = <<>>
  /\ built = "nothing"
  /\ fault_at = "none"
  /\ IdleUnits

SpecRetry == RetryInit /\ [][Next]_vars /\ WF_vars(Next)

\* the run is over: main holds a document, or an exception has reached it
Terminated == pc \in {"done", "raised", "build_raised"}

\* the number of entries of the outline the run works on
OutlineLength ==
  LET toc == parse_toc_items(toc_items)
  IN  IF toc = NoList THEN Cardinality({"introduction", "literature_review",
                                        "methodology", "results", "conclusion",
                                        "references"})
      ELSE Len(toc)

\* C25: a full run over an outline of n entries terminates, and sends at most
\* 3 * (n + 1) requests to the text-generation collaborator whatever the
\* collaborators answer: at most 3 per section, and at most 3 more for the
\* one abstract of the builder.
C25_RunTerminatesWithinRequestBound ==
  /\ <>Terminated
  /\ [](/\ groqRequests <= 3 * (OutlineLength + 1)
        /\ caller \in {"nobody", "section"} =>
             groqRequests <= 3 * OutlineLength /\ groqRequests <= 3 * i
        /\ attempt < 3)

\* a run over a two-entry outline in which every request has failed: three
\* requests for each section and three for the abstract
C25_Witness ==
  /\ Terminated
  /\ built = "main"
  /\ OutlineLength = 2
  /\ groqRequests = 3 * (OutlineLength + 1)

\* the ids section_1 .. section_n
SectionIds(n) == {<<"section_">> \o DecimalDigits(k) : k \in 1..n}

\* the ids of the default outline
DefaultIds == {SixDefaultKeys[k] : k \in 1..Len(SixDefaultKeys)}

\* the keys the builder's section loop has laid out and has still to lay out
LayoutSchedule == laid \o layout_keys

\* C26: parse_toc_items never returns an empty list; the records returned by
\* generate_project_sections have the keys section_1..section_n of a custom
\* outline or the six default ids, never a mixture; and once the builder has
\* reached its section stage it lays out every record exactly once, taking the
\* custom branch exactly when the assembler took it.
C26_EveryRecordLaidOutOnce ==
  /\ parse_toc_items(toc_items) # <<>>
  /\ SectionsReturned =>
       /\ parsed_toc # <<>>
       /\ IF parsed_toc = NoList THEN DOMAIN sections = DefaultIds
          ELSE DOMAIN sections = SectionIds(Len(parsed_toc))
  /\ (pc = "layout" \/ built = "main") =>
       /\ Len(LayoutSchedule) = Cardinality(DOMAIN sections)
       /\ {LayoutSchedule[k] : k \in 1..Len(LayoutSchedule)} = DOMAIN sections
       /\ \A k \in 1..Len(LayoutSchedule) :
            (LayoutSchedule[k][1] = "section_") <=> (parsed_toc # NoList)
  /\ built = "main" => layout_keys = <<>>

\* the main document of a custom outline of three entries has been returned,
\* each of the three records laid out
C26_Witness ==
  /\ pc = "done" /\ built = "main"
  /\ parsed_toc # NoList
  /\ Len(laid) = 3
  /\ DOMAIN sections = {laid[k] : k \in 1..3}

====
